---- MODULE Spec2Model ----
(***************************************************************************)
(* Model of ChatPromptAttachmentsCollection                                *)
(* (src/vs/workbench/contrib/chat/browser/chatAttachmentModel/             *)
(*  chatPromptAttachmentsCollection.ts).                                   *)
(*                                                                         *)
(* The collection runs on a single-threaded event loop: every public call  *)
(* and every handle-internal turn runs to completion, so each action below *)
(* is one whole turn.  A turn is computed by composing operators that      *)
(* mirror the calls of the source in the order the source makes them; each *)
(* operator maps a state record S to the state record after the call.      *)
(***************************************************************************)
EXTENDS Integers, Sequences, FiniteSets, TLC

\* ------------------------------------------------------------------ bounds
MaxHandles == 3      \* handles createInstance may produce in one behaviour
MaxSettledHandles == 2   \* the same, in the behaviours of SpecSettled
MaxCalls == 1        \* allSettled() calls in one behaviour
MaxReentrantHandles == 3   \* handles created in one behaviour of SpecReentrant
MaxReentry == 1      \* calls a listener makes back into the collection per turn

\* ------------------------------------------------------------------- URIs
\* A URI is a record; `path` is the sequence of its path segments.
MkUri(s, p) == [scheme |-> s, path |-> p]

UriA == MkUri("file", <<"a.prompt.md">>)
UriB == MkUri("file", <<"b.prompt.md">>)
UriA2 == MkUri("untitled", <<"a.prompt.md">>)
Uris == {UriA, UriB, UriA2}

\* nodes a handle may discover while it resolves its reference tree
NodeX == [uri |-> MkUri("file", <<"d", "x.md">>), isPromptFile |-> FALSE]
NodeC == [uri |-> MkUri("file", <<"d", "c.prompt.md">>), isPromptFile |-> TRUE]

\* what resolving each file eventually finds: its allValidReferences, in order
TreeOf(uri) ==
    IF uri = UriA THEN <<>>
    ELSE IF uri = UriB THEN <<NodeX, NodeC>>
    ELSE <<NodeC>>

VARIABLES
    store,       \* DisposableMap._store: <<[key, h]>> in Map insertion order
    isDisposed,  \* the collection (its emitters and its map) is disposed
    models,      \* every handle created so far, indexed by handle id
    hist,        \* per handle: how often onAdd / onRemove fired with it
    trace,       \* the steps of the most recent turn, in order
    lastCall,    \* the most recent turn
    promises,    \* the aggregate promises returned by allSettled()
    enc          \* the most recent call of an encoding function, with its result

vars == <<store, isDisposed, models, hist, trace, lastCall, promises, enc>>

\* ------------------------------------------------------------ state record
\* the listener subscribed to the collection's events during a turn: on the
\* event `on` it calls `do`(uri) on the collection, `budget` times at most
NoListener == [on |-> "none", do |-> "none", uri |-> UriA, budget |-> 0]

Cur ==
    [store |-> store, isDisposed |-> isDisposed, models |-> models,
     hist |-> hist, trace |-> <<>>, listener |-> NoListener]

Commit(S) ==
    /\ store' = S.store
    /\ isDisposed' = S.isDisposed
    /\ models' = S.models
    /\ hist' = S.hist
    /\ trace' = S.trace
    /\ enc' = enc

Step(S, ev, h) ==
    [S EXCEPT !.trace = Append(@, [ev |-> ev, h |-> h, live |-> ~S.isDisposed])]

\* ---------------------------------------------------------- DisposableMap
RECURSIVE IndexOfKey(_, _, _)
IndexOfKey(st, key, i) ==
    IF i > Len(st) THEN 0
    ELSE IF st[i].key = key THEN i
    ELSE IndexOfKey(st, key, i + 1)

MapHas(st, key) == IndexOfKey(st, key, 1) # 0

MapGet(st, key) ==
    IF MapHas(st, key) THEN st[IndexOfKey(st, key, 1)].h ELSE 0

\* Map.delete: the entry goes, the others keep their relative order
MapDelete(st, key) ==
    LET i == IndexOfKey(st, key, 1)
    IN  IF i = 0 THEN st
        ELSE SubSeq(st, 1, i - 1) \o SubSeq(st, i + 1, Len(st))

\* Map.set: a new key is appended, an existing key keeps its position
MapSet(st, key, h) ==
    LET i == IndexOfKey(st, key, 1)
    IN  IF i = 0 THEN Append(st, [key |-> key, h |-> h])
        ELSE [st EXCEPT ![i] = [key |-> key, h |-> h]]

MapValues(st) == [i \in 1..Len(st) |-> st[i].h]

MapKeys(st) == [i \in 1..Len(st) |-> st[i].key]

\* ------------------------------------------------- ChatPromptAttachmentModel
\* createInstance(ChatPromptAttachmentModel, uri): a fresh, unresolved handle
NewModel(uri) ==
    [uri |-> uri, disposed |-> FALSE,
     onUpdateWired |-> FALSE, onDisposeWired |-> FALSE,
     children |-> <<>>, settle |-> "none",
     resolveCalls |-> 0, disposeCalls |-> 0]

NoHist == [onAdd |-> 0, onRemove |-> 0]

\* the handle's `references`: every URI of its tree, children first
ModelReferences(m) ==
    [i \in 1..Len(m.children) |-> m.children[i].uri] \o <<m.uri>>

\* ------------------------------------------------------ URI, as a string
RECURSIVE JoinPath(_)
JoinPath(segs) ==
    IF segs = <<>> THEN "" ELSE "/" \o Head(segs) \o JoinPath(Tail(segs))

\* URI.toString(): "file:///d/x.md", "untitled:/a.prompt.md"
UriToString(uri) ==
    uri.scheme \o ":" \o (IF uri.scheme = "file" THEN "//" ELSE "")
        \o JoinPath(uri.path)

\* basename(uri): the last segment of the path
basename(uri) == uri.path[Len(uri.path)]

StartsWith(str, prefix) ==
    /\ Len(str) >= Len(prefix)
    /\ SubSeq(str, 1, Len(prefix)) = prefix

\* ------------------------------------------------------ variable entries
Undefined == "<undefined>"

\* variant: the id does not tell the root from the others
createPromptVariableIdFlat(uri, isRoot) ==
    "vscode.prompt.instructions" \o "__" \o UriToString(uri)

createPromptVariableId(uri, isRoot) ==
    LET prefix == "vscode.prompt.instructions" \o (IF isRoot THEN ".root" ELSE "")
    IN  prefix \o "__" \o UriToString(uri)

\* variant: a root reference is named as a prompt whatever its flag
toChatVariableRootNamed(reference, isRoot) ==
    LET uri == reference.uri
        isPromptFile == reference.isPromptFile
    IN  [id |-> IF isPromptFile THEN createPromptVariableId(uri, isRoot)
                ELSE UriToString(uri),
         name |-> IF isPromptFile \/ isRoot THEN "prompt:" \o basename(uri)
                  ELSE "file:" \o basename(uri),
         value |-> uri,
         kind |-> "file",
         modelDescription |-> IF isPromptFile THEN "Prompt instructions file"
                              ELSE Undefined]

toChatVariable(reference, isRoot) ==
    LET uri == reference.uri
        isPromptFile == reference.isPromptFile
    IN  [id |-> IF isPromptFile THEN createPromptVariableId(uri, isRoot)
                ELSE UriToString(uri),
         name |-> IF isPromptFile THEN "prompt:" \o basename(uri)
                  ELSE "file:" \o basename(uri),
         value |-> uri,
         kind |-> "file",
         modelDescription |-> IF isPromptFile THEN "Prompt instructions file"
                              ELSE Undefined]

isPromptFileChatVariable(variable) ==
    variable.kind = "file" /\ StartsWith(variable.name, "prompt:")

\* the flag the root node of a handle's tree carries by itself: a document
\* that was never saved under a prompt-file name carries none
RootIsPromptFile(uri) == uri.scheme = "file"

\* ----------------------------------------------------------- read views
RECURSIVE ReferencesOf(_, _)
ReferencesOf(hs, ms) ==
    IF hs = <<>> THEN <<>>
    ELSE ModelReferences(ms[Head(hs)]) \o ReferencesOf(Tail(hs), ms)

\* variant: each attachment's references go in front of the earlier ones
RECURSIVE ReferencesPrepended(_, _)
ReferencesPrepended(hs, ms) ==
    IF hs = <<>> THEN <<>>
    ELSE ReferencesPrepended(Tail(hs), ms) \o ModelReferences(ms[Head(hs)])

referencesPrepending(S) == ReferencesPrepended(MapValues(S.store), S.models)

references(S) == ReferencesOf(MapValues(S.store), S.models)

\* variant: the root entry takes the flag its node carries
AttachmentVariablesUnforced(m) ==
    [i \in 1..Len(m.children) |-> toChatVariable(m.children[i], FALSE)]
        \o <<toChatVariable([uri |-> m.uri,
                             isPromptFile |-> RootIsPromptFile(m.uri)], TRUE)>>

\* variant: the root entry goes first, the children after it
AttachmentVariablesRootFirst(m) ==
    <<toChatVariable([uri |-> m.uri, isPromptFile |-> TRUE], TRUE)>>
        \o [i \in 1..Len(m.children) |-> toChatVariable(m.children[i], FALSE)]

\* one attachment's share of chatAttachments: its children, then its root
AttachmentVariables(m) ==
    [i \in 1..Len(m.children) |-> toChatVariable(m.children[i], FALSE)]
        \o <<toChatVariable([uri |-> m.uri, isPromptFile |-> TRUE], TRUE)>>

RECURSIVE ChatAttachmentsOf(_, _)
ChatAttachmentsOf(hs, ms) ==
    IF hs = <<>> THEN <<>>
    ELSE AttachmentVariables(ms[Head(hs)]) \o ChatAttachmentsOf(Tail(hs), ms)

chatAttachments(S) == ChatAttachmentsOf(MapValues(S.store), S.models)

\* ------------------------------------------------------- collection emitters
RECURSIVE add(_, _), remove(_, _)

\* Emitter.fire delivers synchronously: the listener runs inside the fire,
\* unless the emitter is disposed, and may call add or remove
Notify(S, ev) ==
    IF S.listener.on = ev /\ S.listener.budget > 0 /\ ~S.isDisposed
    THEN LET S1 == Step([S EXCEPT !.listener.budget = @ - 1],
                        "listener:" \o S.listener.do, 0)
         IN  IF S.listener.do = "add"
             THEN add(S1, S.listener.uri).S
             ELSE remove(S1, S.listener.uri)
    ELSE S

FireUpdate(S) == Notify(Step(S, "onUpdate", 0), "onUpdate")

FireAdd(S, h) ==
    Notify(Step([S EXCEPT !.hist[h].onAdd = @ + 1], "onAdd", h), "onAdd")

FireRemove(S, h) ==
    Notify(Step([S EXCEPT !.hist[h].onRemove = @ + 1], "onRemove", h), "onRemove")

\* ----------------------------------------------- DisposableMap, owning calls
DeleteAndLeak(S, key) ==
    Step([S EXCEPT !.store = MapDelete(@, key)], "deleteAndLeak", MapGet(S.store, key))

RECURSIVE HandleDispose(_, _)

\* this._store.get(key)?.dispose(); this._store.delete(key);
DeleteAndDispose(S, key) ==
    LET h == MapGet(S.store, key)
        S1 == IF h = 0 THEN S ELSE HandleDispose(S, h)
        dropped == MapGet(S1.store, key)
        S2 == Step([S1 EXCEPT !.store = MapDelete(@, key)], "delete", h)
    IN  IF dropped = 0 THEN S2 ELSE Step(S2, "drop", dropped)

\* variant: the callback drops the entry with the disposing primitive
OnDisposeCallbackDisposing(S, h) ==
    LET key == S.models[h].uri.path
        S1 == DeleteAndDispose(S, key)
        S2 == FireUpdate(S1)
    IN  FireRemove(S2, h)

\* the callback `add` hands to the handle's onDispose
OnDisposeCallback(S, h) ==
    LET key == S.models[h].uri.path
        S1 == DeleteAndLeak(S, key)
        S2 == FireUpdate(S1)
    IN  FireRemove(S2, h)

\* the handle's dispose(): runs its disposal listeners once, then drops all
\* of its subscriptions
HandleDispose(S, h) ==
    LET S1 == Step([S EXCEPT !.models[h].disposeCalls = @ + 1], "dispose", h)
    IN  IF S.models[h].disposed THEN S1
        ELSE LET S2 == [S1 EXCEPT !.models[h].disposed = TRUE]
                 S3 == IF S2.models[h].onDisposeWired
                       THEN OnDisposeCallback(S2, h) ELSE S2
             IN  [S3 EXCEPT !.models[h].onUpdateWired = FALSE,
                            !.models[h].onDisposeWired = FALSE]

\* the handle's resolve(): starts the asynchronous resolution
HandleResolve(S, h) ==
    Step([S EXCEPT !.models[h].resolveCalls = @ + 1,
                   !.models[h].settle =
                       IF @ = "none" THEN "pending" ELSE @],
         "resolve", h)

\* ------------------------------------------- ChatPromptAttachmentsCollection
\* variant: add without the membership test
addUnguarded(S, uri) ==
    LET h == Len(S.models) + 1
        S1 == [S EXCEPT !.models = Append(@, NewModel(uri)),
                        !.hist = Append(@, NoHist)]
        S2 == Step([S1 EXCEPT !.models[h].onUpdateWired = TRUE],
                   "subscribeUpdate", h)
        S3 == Step([S2 EXCEPT !.models[h].onDisposeWired = TRUE],
                   "subscribeDispose", h)
        S4 == Step([S3 EXCEPT !.store = MapSet(@, uri.path, h)], "set", h)
        S5 == HandleResolve(S4, h)
        S6 == FireAdd(S5, h)
        S7 == FireUpdate(S6)
    IN  [S |-> S7, ret |-> FALSE, h |-> h]

\* variant: add announces the handle before it stores and resolves it
addAnnouncingFirst(S, uri) ==
    IF MapHas(S.store, uri.path)
    THEN [S |-> S, ret |-> TRUE, h |-> 0]
    ELSE LET h == Len(S.models) + 1
             S1 == [S EXCEPT !.models = Append(@, NewModel(uri)),
                             !.hist = Append(@, NoHist)]
             S2 == Step([S1 EXCEPT !.models[h].onUpdateWired = TRUE],
                        "subscribeUpdate", h)
             S3 == Step([S2 EXCEPT !.models[h].onDisposeWired = TRUE],
                        "subscribeDispose", h)
             S4 == FireAdd(S3, h)
             S5 == Step([S4 EXCEPT !.store = MapSet(@, uri.path, h)],
                        "set", h)
             S6 == HandleResolve(S5, h)
             S7 == FireUpdate(S6)
         IN  [S |-> S7, ret |-> FALSE, h |-> h]

\* variant: an add that finds the key taken resolves the stored handle again
addResolvingAgain(S, uri) ==
    IF MapHas(S.store, uri.path)
    THEN [S |-> HandleResolve(S, MapGet(S.store, uri.path)), ret |-> TRUE, h |-> 0]
    ELSE LET h == Len(S.models) + 1
             S1 == [S EXCEPT !.models = Append(@, NewModel(uri)),
                             !.hist = Append(@, NoHist)]
             S2 == Step([S1 EXCEPT !.models[h].onUpdateWired = TRUE],
                        "subscribeUpdate", h)
             S3 == Step([S2 EXCEPT !.models[h].onDisposeWired = TRUE],
                        "subscribeDispose", h)
             S4 == Step([S3 EXCEPT !.store = MapSet(@, uri.path, h)],
                        "set", h)
             S5 == HandleResolve(S4, h)
             S6 == FireAdd(S5, h)
             S7 == FireUpdate(S6)
         IN  [S |-> S7, ret |-> FALSE, h |-> h]

\* variant: the key is the scheme together with the path
addKeyedByScheme(S, uri) ==
    LET key == <<uri.scheme>> \o uri.path
    IN  IF MapHas(S.store, key)
        THEN [S |-> S, ret |-> TRUE, h |-> 0]
        ELSE LET h == Len(S.models) + 1
                 S1 == [S EXCEPT !.models = Append(@, NewModel(uri)),
                                 !.hist = Append(@, NoHist)]
                 S2 == Step([S1 EXCEPT !.models[h].onUpdateWired = TRUE],
                            "subscribeUpdate", h)
                 S3 == Step([S2 EXCEPT !.models[h].onDisposeWired = TRUE],
                            "subscribeDispose", h)
                 S4 == Step([S3 EXCEPT !.store = MapSet(@, key, h)], "set", h)
                 S5 == HandleResolve(S4, h)
                 S6 == FireAdd(S5, h)
                 S7 == FireUpdate(S6)
             IN  [S |-> S7, ret |-> FALSE, h |-> h]

add(S, uri) ==
    IF MapHas(S.store, uri.path)
    THEN [S |-> S, ret |-> TRUE, h |-> 0]
    ELSE LET h == Len(S.models) + 1
             S1 == [S EXCEPT !.models = Append(@, NewModel(uri)),
                             !.hist = Append(@, NoHist)]
             S2 == Step([S1 EXCEPT !.models[h].onUpdateWired = TRUE],
                        "subscribeUpdate", h)
             S3 == Step([S2 EXCEPT !.models[h].onDisposeWired = TRUE],
                        "subscribeDispose", h)
             S4 == Step([S3 EXCEPT !.store = MapSet(@, uri.path, h)],
                        "set", h)
             S5 == HandleResolve(S4, h)
             S6 == FireAdd(S5, h)
             S7 == FireUpdate(S6)
         IN  [S |-> S7, ret |-> FALSE, h |-> h]

\* variant: remove forgets the entry without disposing the handle
removeLeaking(S, uri) ==
    IF ~MapHas(S.store, uri.path)
    THEN S
    ELSE DeleteAndLeak(S, uri.path)

\* variant: remove announces an update of its own, whatever it found
removeNotifying(S, uri) ==
    FireUpdate(IF ~MapHas(S.store, uri.path) THEN S
               ELSE DeleteAndDispose(S, uri.path))

\* variant: remove announces the removal itself, on top of the callback
removeAnnouncing(S, uri) ==
    IF ~MapHas(S.store, uri.path)
    THEN S
    ELSE LET h == MapGet(S.store, uri.path)
         IN  FireRemove(FireUpdate(DeleteAndDispose(S, uri.path)), h)

remove(S, uri) ==
    IF ~MapHas(S.store, uri.path)
    THEN S
    ELSE DeleteAndDispose(S, uri.path)

\* ------------------------------------------------------------------ turns
\* op: the turn; uri: its argument; h: the handle it created, removed or
\* concerned (0: none); ret: what add returned
NoCall == [op |-> "none", uri |-> UriA, h |-> 0, ret |-> FALSE]

Call(op, uri, h, ret) == [op |-> op, uri |-> uri, h |-> h, ret |-> ret]

NoEnc == [fn |-> "none"]

Init ==
    /\ store = <<>>
    /\ isDisposed = FALSE
    /\ models = <<>>
    /\ hist = <<>>
    /\ trace = <<>>
    /\ lastCall = NoCall
    /\ promises = <<>>
    /\ enc = NoEnc

AddUpTo(uri, max) ==
    /\ MapHas(store, uri.path) \/ Len(models) < max
    /\ LET r == add(Cur, uri)
       IN  /\ Commit(r.S)
           /\ lastCall' = Call("add", uri, r.h, r.ret)
    /\ UNCHANGED promises

Add(uri) == AddUpTo(uri, MaxHandles)

Remove(uri) ==
    /\ Commit(remove(Cur, uri))
    /\ lastCall' = Call("remove", uri, MapGet(store, uri.path), FALSE)
    /\ UNCHANGED promises

\* the handle discovers one more node of its tree and emits its update event;
\* the subscription of line 214 forwards it to the collection's onUpdate
\* variant: the callback handed over is not bound to the emitter and fires
\* nothing
OnUpdateCallbackUnbound(S) == S

OnUpdateCallback(S) == FireUpdate(S)

HandleEmitUpdate(S, h) ==
    IF S.models[h].onUpdateWired THEN OnUpdateCallback(S) ELSE S

HandleUpdate(h) ==
    /\ h \in 1..Len(models)
    /\ models[h].settle = "pending"
    /\ Len(models[h].children) < Len(TreeOf(models[h].uri))
    /\ Commit(HandleEmitUpdate(
           [Cur EXCEPT !.models[h].children =
               Append(@, TreeOf(models[h].uri)[Len(@) + 1])], h))
    /\ lastCall' = Call("handleUpdate", models[h].uri, h, FALSE)
    /\ UNCHANGED promises

\* the handle's resolution ends, one way or the other
HandleSettle(h, outcome) ==
    /\ h \in 1..Len(models)
    /\ models[h].settle = "pending"
    /\ Commit([Cur EXCEPT !.models[h].settle = outcome])
    /\ lastCall' = Call("handleSettle", models[h].uri, h, FALSE)
    /\ UNCHANGED promises

\* the handle disposes itself (its own failure / teardown logic)
HandleSelfDispose(h) ==
    /\ h \in 1..Len(models)
    /\ ~models[h].disposed
    /\ Commit(HandleDispose(Cur, h))
    /\ lastCall' = Call("handleDispose", models[h].uri, h, FALSE)
    /\ UNCHANGED promises

\* ---------------------------------------------------------- allSettled()
\* Promise.allSettled over the given promise states
PromiseAllSettled(states) ==
    IF \A i \in 1..Len(states) : states[i] \in {"fulfilled", "rejected"}
    THEN "fulfilled" ELSE "pending"

\* Promise.all over the given promise states
PromiseAll(states) ==
    IF \E i \in 1..Len(states) : states[i] = "rejected" THEN "rejected"
    ELSE IF \A i \in 1..Len(states) : states[i] = "fulfilled" THEN "fulfilled"
    ELSE "pending"

\* variant: the handles are read from the map when the wait is evaluated
AllSettledAttachmentsLive(p, st) == MapValues(st)

\* const attachments = [...this.attachments.values()];
AllSettledAttachments(p, st) == p.attachments

\* variant: the wait is a Promise.all
AllSettledAwaitAll(ms, attachments) ==
    PromiseAll([i \in 1..Len(attachments) |-> ms[attachments[i]].settle])

\* await Promise.allSettled(attachments.map((a) => a.allSettled))
AllSettledAwait(ms, attachments) ==
    PromiseAllSettled([i \in 1..Len(attachments) |-> ms[attachments[i]].settle])

AllSettledCall ==
    /\ Len(promises) < MaxCalls
    /\ promises' = Append(promises,
           [attachments |-> MapValues(store), state |-> "pending"])
    /\ trace' = <<>>
    /\ lastCall' = Call("allSettled", UriA, 0, FALSE)
    /\ UNCHANGED <<store, isDisposed, models, hist, enc>>

\* the continuation after the await: the async function's promise settles
AllSettledContinue(i) ==
    /\ i \in 1..Len(promises)
    /\ promises[i].state = "pending"
    /\ LET r == AllSettledAwait(models, AllSettledAttachments(promises[i], store))
       IN  /\ r # "pending"
           /\ promises' = [promises EXCEPT ![i].state = r]
    /\ trace' = <<>>
    /\ lastCall' = Call("allSettledDone", UriA, i, FALSE)
    /\ UNCHANGED <<store, isDisposed, models, hist, enc>>

\* ------------------------------------------------- collection's dispose()
\* DisposableMap.clearAndDisposeAll: dispose every value the iteration over
\* the live map still meets, then clear the map
RECURSIVE DisposeEach(_, _)
DisposeEach(S, hs) ==
    IF hs = <<>> THEN S
    ELSE LET h == Head(hs)
             live == \E i \in 1..Len(S.store) : S.store[i].h = h
         IN  DisposeEach(IF live THEN HandleDispose(S, h) ELSE S, Tail(hs))

ClearAndDisposeAll(S) ==
    [DisposeEach(S, MapValues(S.store)) EXCEPT !.store = <<>>]

\* variant: the map was never registered with the collection
DisposeCollectionUnregistered(S) == [S EXCEPT !.isDisposed = TRUE]

\* Disposable.dispose(): the registered emitters go first (lines 98-118),
\* the DisposableMap (line 127) last
DisposeCollection(S) ==
    ClearAndDisposeAll([S EXCEPT !.isDisposed = TRUE])

Dispose ==
    /\ ~isDisposed
    /\ Commit(DisposeCollection(Cur))
    /\ lastCall' = Call("dispose", UriA, 0, FALSE)
    /\ UNCHANGED promises

\* membership, events, views: every turn but the settling of promises
Next ==
    \/ \E uri \in Uris : Add(uri)
    \/ \E uri \in Uris : Remove(uri)
    \/ \E h \in 1..MaxHandles : HandleUpdate(h)
    \/ \E h \in 1..MaxHandles : HandleSelfDispose(h)
    \/ Dispose

Spec == Init /\ [][Next]_vars

\* allSettled(): every turn but the growth of the reference trees, over the
\* two URIs with different keys
SettledUris == {UriA, UriB}

AddSettled(uri) == AddUpTo(uri, MaxSettledHandles)

NextSettled ==
    \/ \E uri \in SettledUris : AddSettled(uri)
    \/ \E uri \in SettledUris : Remove(uri)
    \/ \E h \in 1..MaxHandles, o \in {"fulfilled", "rejected"} : HandleSettle(h, o)
    \/ \E h \in 1..MaxHandles : HandleSelfDispose(h)
    \/ AllSettledCall
    \/ \E i \in 1..MaxCalls : AllSettledContinue(i)
    \/ Dispose

SpecSettled == Init /\ [][NextSettled]_vars

\* ----------------------------------------------- turns with a live listener
ReentrantUris == {UriA, UriB}

Listeners ==
    {[on |-> e, do |-> d, uri |-> u, budget |-> MaxReentry] :
        e \in {"onAdd", "onUpdate", "onRemove"}, d \in {"add", "remove"},
        u \in ReentrantUris}

Listening(lst) == [Cur EXCEPT !.listener = lst]

Room(n) == Len(models) + n + MaxReentry <= MaxReentrantHandles

AddListening(uri, lst) ==
    /\ Room(1)
    /\ LET r == add(Listening(lst), uri)
       IN  /\ Commit(r.S)
           /\ lastCall' = Call("add", uri, r.h, r.ret)
    /\ UNCHANGED promises

RemoveListening(uri, lst) ==
    /\ Room(0)
    /\ Commit(remove(Listening(lst), uri))
    /\ lastCall' = Call("remove", uri, MapGet(store, uri.path), FALSE)
    /\ UNCHANGED promises

HandleUpdateListening(h, lst) ==
    /\ Room(0)
    /\ h \in 1..Len(models)
    /\ models[h].settle = "pending"
    /\ Len(models[h].children) < Len(TreeOf(models[h].uri))
    /\ Commit(HandleEmitUpdate(
           [Listening(lst) EXCEPT !.models[h].children =
               Append(@, TreeOf(models[h].uri)[Len(@) + 1])], h))
    /\ lastCall' = Call("handleUpdate", models[h].uri, h, FALSE)
    /\ UNCHANGED promises

HandleSelfDisposeListening(h, lst) ==
    /\ Room(0)
    /\ h \in 1..Len(models)
    /\ ~models[h].disposed
    /\ Commit(HandleDispose(Listening(lst), h))
    /\ lastCall' = Call("handleDispose", models[h].uri, h, FALSE)
    /\ UNCHANGED promises

\* every turn of Next, with a listener that may call back into the collection
NextReentrant ==
    \/ \E uri \in ReentrantUris, lst \in Listeners : AddListening(uri, lst)
    \/ \E uri \in ReentrantUris, lst \in Listeners : RemoveListening(uri, lst)
    \/ \E h \in 1..MaxReentrantHandles, lst \in Listeners : HandleUpdateListening(h, lst)
    \/ \E h \in 1..MaxReentrantHandles, lst \in Listeners : HandleSelfDisposeListening(h, lst)
    \/ Dispose

SpecReentrant == Init /\ [][NextReentrant]_vars

\* ------------------------------------------------ the encoding functions
EncSchemes == {"file", "untitled", "vscode-remote"}

EncPaths ==
    {<<"a.prompt.md">>, <<"b.prompt.md">>, <<"d", "x.md">>,
     <<"d", "c.prompt.md">>, <<"prompt:x.md">>, <<"d", "e", "f.txt">>,
     <<"Untitled-1">>}

EncUris == {MkUri(s, p) : s \in EncSchemes, p \in EncPaths}

EncUnchanged == UNCHANGED <<store, isDisposed, models, hist, trace, lastCall, promises>>

CreatePromptVariableId(uri, isRoot) ==
    /\ enc' = [fn |-> "createPromptVariableId", uri |-> uri, isRoot |-> isRoot,
               id |-> createPromptVariableId(uri, isRoot)]
    /\ EncUnchanged

\* toChatVariable, and isPromptFileChatVariable of the entry it made
ToChatVariable(reference, isRoot) ==
    /\ enc' = [fn |-> "toChatVariable", reference |-> reference, isRoot |-> isRoot,
               out |-> toChatVariable(reference, isRoot),
               isPrompt |-> isPromptFileChatVariable(toChatVariable(reference, isRoot))]
    /\ EncUnchanged

NextEncode ==
    \/ \E uri \in EncUris, isRoot \in BOOLEAN : CreatePromptVariableId(uri, isRoot)
    \/ \E uri \in EncUris, isPromptFile \in BOOLEAN, isRoot \in BOOLEAN :
           ToChatVariable([uri |-> uri, isPromptFile |-> isPromptFile], isRoot)

SpecEncode == Init /\ [][NextEncode]_vars

\* =================================================================== claims
Ev(ev, h) == [ev |-> ev, h |-> h, live |-> ~isDisposed]

StoredUnder(st, key) == {i \in 1..Len(st) : st[i].key = key}

EventsOf(tr) == SelectSeq(tr, LAMBDA e : e.ev \in {"onAdd", "onRemove", "onUpdate"})

CountOf(tr, ev, h) == Cardinality({i \in 1..Len(tr) : tr[i].ev = ev /\ tr[i].h = h})

\* C1: add(u) returns true exactly when a handle was already stored under
\* u.path; an add that returns true creates no handle and fires nothing; after
\* any add(u) exactly one handle is stored under u.path (so an add(u) right
\* after it returns true); no key ever holds two handles.
C1_UniqueKeys == \A key \in {u.path : u \in Uris} : Cardinality(StoredUnder(store, key)) <= 1

C1_AddStep ==
    lastCall'.op = "add" =>
        LET key == lastCall'.uri.path
        IN  /\ lastCall'.ret = (StoredUnder(store, key) # {})
            /\ lastCall'.ret =>
                   /\ models' = models /\ store' = store /\ hist' = hist
                   /\ trace' = <<>>
            /\ ~lastCall'.ret =>
                   /\ Len(models') = Len(models) + 1
                   /\ \E i \in StoredUnder(store', key) : store'[i].h = Len(models')
            /\ Cardinality(StoredUnder(store', key)) = 1

C1_AddReturnsAlreadyExisted == [](C1_UniqueKeys) /\ [][C1_AddStep]_vars

\* an add that found the key taken: the second of two add(u) in a row
C1_Witness ==
    /\ lastCall.op = "add" /\ lastCall.ret
    /\ \E i \in 1..Len(store) :
           store[i].key = lastCall.uri.path /\ models[store[i].h].uri = lastCall.uri
    /\ trace = <<>>

\* C2: when remove(u) returns after removing the handle h stored under u.path
\* (the one an add created), h is disposed, its dispose ran exactly once,
\* onRemove fired exactly once, with h, and neither u.path nor h is left in the
\* map the views are computed from.
C2_RemoveDisposesOnce ==
    (lastCall.op = "remove" /\ lastCall.h # 0) =>
        LET h == lastCall.h
        IN  /\ models[h].disposed
            /\ models[h].disposeCalls = 1
            /\ hist[h].onRemove = 1
            /\ SelectSeq(trace, LAMBDA e : e.ev = "onRemove") = <<Ev("onRemove", h)>>
            /\ StoredUnder(store, lastCall.uri.path) = {}
            /\ \A i \in 1..Len(store) : store[i].h # h
            /\ Len(references(Cur)) = Len(chatAttachments(Cur))
            /\ \A i \in 1..Len(references(Cur)) :
                   \E j \in 1..Len(store) :
                       references(Cur)[i] \in
                           {models[store[j].h].uri} \cup
                           {models[store[j].h].children[k].uri :
                                k \in 1..Len(models[store[j].h].children)}

C2_Witness ==
    /\ lastCall.op = "remove" /\ lastCall.h # 0
    /\ models[lastCall.h].uri = lastCall.uri
    /\ models[lastCall.h].disposeCalls = 1
    /\ hist[lastCall.h].onAdd = 1 /\ hist[lastCall.h].onRemove = 1
    /\ ~isDisposed

\* C3: remove(u) with nothing stored under u.path changes nothing: the stored
\* handles and their order, the handles themselves and the event counts stay
\* as they were, and the call fires no event and disposes nothing.
C3_RemoveStep ==
    (lastCall'.op = "remove" /\ StoredUnder(store, lastCall'.uri.path) = {}) =>
        /\ store' = store /\ models' = models /\ hist' = hist
        /\ isDisposed' = isDisposed
        /\ EventsOf(trace') = <<>>
        /\ \A i \in 1..Len(trace') : trace'[i].ev # "dispose"

C3_RemoveAbsentIsNoOp == [][C3_RemoveStep]_vars

C3_Witness ==
    /\ lastCall.op = "remove" /\ lastCall.h = 0
    /\ store # <<>>
    /\ EventsOf(trace) = <<>>

\* C4: no handle's dispose is ever invoked twice; a turn in which a handle
\* disposes itself contains that one dispose only, and the collection forgets
\* the entry with deleteAndLeak.
C4_NoDoubleDispose ==
    /\ \A h \in 1..Len(models) :
           /\ models[h].disposeCalls <= 1
           /\ models[h].disposed <=> models[h].disposeCalls = 1
    /\ lastCall.op = "handleDispose" =>
           /\ CountOf(trace, "dispose", lastCall.h) = 1
           /\ CountOf(trace, "deleteAndLeak", lastCall.h) = 1
           /\ \A i \in 1..Len(trace) : trace[i].ev # "delete"
           /\ \A i \in 1..Len(store) : store[i].h # lastCall.h

C4_Witness ==
    /\ lastCall.op = "handleDispose"
    /\ models[lastCall.h].disposeCalls = 1
    /\ CountOf(trace, "deleteAndLeak", lastCall.h) = 1
    /\ store # <<>>

\* C5: a remove(u) that finds a handle h runs, in this order: h's dispose, in
\* it the callback's deleteAndLeak, one onUpdate and one onRemove(h), and last
\* the map's own delete; no other event fires in the call.
C5_RemoveNotifiesOnce ==
    (lastCall.op = "remove" /\ lastCall.h # 0) =>
        LET h == lastCall.h
        IN  trace = <<Ev("dispose", h), Ev("deleteAndLeak", h),
                      Ev("onUpdate", 0), Ev("onRemove", h), Ev("delete", h)>>

C5_Witness ==
    /\ lastCall.op = "remove" /\ lastCall.h # 0
    /\ EventsOf(trace) = <<Ev("onUpdate", 0), Ev("onRemove", lastCall.h)>>
    /\ Len(store) = 1

\* C10: an add(u) that finds u.path free runs, in this order: the update
\* subscription, the disposal subscription, the map's set, the handle's
\* resolve, onAdd with the handle, onUpdate; so onAdd fires with the handle
\* stored and its resolution started, and before the add's onUpdate.
C10_AddStepOrder ==
    (lastCall.op = "add" /\ ~lastCall.ret) =>
        LET h == lastCall.h
        IN  /\ trace = <<Ev("subscribeUpdate", h), Ev("subscribeDispose", h),
                        Ev("set", h), Ev("resolve", h),
                        Ev("onAdd", h), Ev("onUpdate", 0)>>
            /\ \E i \in StoredUnder(store, lastCall.uri.path) : store[i].h = h
            /\ models[h].resolveCalls = 1 /\ models[h].settle = "pending"
            /\ models[h].onUpdateWired /\ models[h].onDisposeWired

C10_Witness ==
    /\ lastCall.op = "add" /\ ~lastCall.ret
    /\ Len(trace) = 6 /\ trace[5].ev = "onAdd" /\ trace[5].h = lastCall.h
    /\ Len(store) = 2 /\ store[2].h = lastCall.h

\* the stored handles in Map order, and where each one's entries start
Stored == [i \in 1..Len(store) |-> models[store[i].h]]

RECURSIVE OffsetOf(_)
OffsetOf(i) ==
    IF i <= 1 THEN 0 ELSE OffsetOf(i - 1) + Len(Stored[i - 1].children) + 1

\* C6: chatAttachments lists the stored handles in insertion order; each
\* handle contributes one non-root entry per node of allValidReferences, in
\* that order and with the node's own isPromptFile, then one root entry for
\* its own URI, always encoded as a prompt file.  Handles a (no children) and
\* b (one non-prompt child x) give [var(a, root), var(x), var(b, root)].
C6_ChatAttachmentsOrder ==
    LET ca == chatAttachments(Cur)
    IN  /\ Len(ca) = OffsetOf(Len(store) + 1)
        /\ \A i \in 1..Len(store) :
               LET m == Stored[i]
                   root == ca[OffsetOf(i) + Len(m.children) + 1]
               IN  /\ \A k \in 1..Len(m.children) :
                          LET e == ca[OffsetOf(i) + k]
                          IN  /\ e = toChatVariable(m.children[k], FALSE)
                              /\ e.value = m.children[k].uri
                              /\ isPromptFileChatVariable(e) = m.children[k].isPromptFile
                              /\ ~StartsWith(e.id, "vscode.prompt.instructions.root")
                   /\ root.value = m.uri
                   /\ root.kind = "file"
                   /\ root.id = "vscode.prompt.instructions.root__" \o UriToString(m.uri)
                   /\ root.name = "prompt:" \o basename(m.uri)
                   /\ root.modelDescription = "Prompt instructions file"
        /\ \A i, j \in 1..Len(store) : i < j => store[i].h < store[j].h

\* a, then b with x found so far
C6_Witness ==
    /\ Len(store) = 2
    /\ Stored[1].uri = UriA /\ Stored[1].children = <<>>
    /\ Stored[2].uri = UriB /\ Stored[2].children = <<NodeX>>
    /\ chatAttachments(Cur) =
           << [id |-> "vscode.prompt.instructions.root__file:///a.prompt.md",
               name |-> "prompt:a.prompt.md", value |-> UriA, kind |-> "file",
               modelDescription |-> "Prompt instructions file"],
              [id |-> "file:///d/x.md",
               name |-> "file:x.md", value |-> NodeX.uri, kind |-> "file",
               modelDescription |-> Undefined],
              [id |-> "vscode.prompt.instructions.root__file:///b.prompt.md",
               name |-> "prompt:b.prompt.md", value |-> UriB, kind |-> "file",
               modelDescription |-> "Prompt instructions file"] >>

\* C7: references is the concatenation, in insertion order, of the stored
\* handles' own references; the stored handles are the undisposed ones in the
\* order they were inserted, whatever was added and removed before.
C7_ReferencesOrder ==
    LET rs == references(Cur)
    IN  /\ Len(rs) = OffsetOf(Len(store) + 1)
        /\ \A i \in 1..Len(store) :
               \A k \in 1..(Len(Stored[i].children) + 1) :
                   rs[OffsetOf(i) + k] = ModelReferences(Stored[i])[k]
        /\ \A i, j \in 1..Len(store) : i < j => store[i].h < store[j].h
        /\ \A i \in 1..Len(store) : ~Stored[i].disposed

\* two survivors, one of them with children, after an earlier handle left
C7_Witness ==
    /\ Len(store) = 2 /\ store[1].h = 2 /\ store[2].h = 3
    /\ models[1].disposed
    /\ Stored[1].children # <<>>
    /\ Len(references(Cur)) >= 4

HasSettled(h) == models[h].settle \in {"fulfilled", "rejected"}

SnapshotSettled(p) == \A k \in 1..Len(p.attachments) : HasSettled(p.attachments[k])

\* C8: the promise allSettled() returned is never rejected; it is fulfilled
\* only after every handle of its call has settled, and once they all have it
\* can be fulfilled whatever their outcomes, a rejected one included.
C8_AllSettledNeverRejects ==
    \A i \in 1..Len(promises) :
        /\ promises[i].state \in {"pending", "fulfilled"}
        /\ promises[i].state = "fulfilled" => SnapshotSettled(promises[i])
        /\ (promises[i].state = "pending" /\ SnapshotSettled(promises[i]))
               => ENABLED AllSettledContinue(i)

\* fulfilled although a handle it waited on failed
C8_Witness ==
    \E i \in 1..Len(promises) :
        /\ promises[i].state = "fulfilled"
        /\ \E k \in 1..Len(promises[i].attachments) :
               models[promises[i].attachments[k]].settle = "rejected"

\* C9: the handles an allSettled() call waits on are those stored when it was
\* called and stay so; its promise is fulfilled only when they have all
\* settled, and a handle added later neither joins them nor holds it back.
C9_Step ==
    /\ Len(promises') >= Len(promises)
    /\ \A i \in 1..Len(promises') :
           IF i > Len(promises)
           THEN promises'[i].attachments = [k \in 1..Len(store) |-> store[k].h]
           ELSE /\ promises'[i].attachments = promises[i].attachments
                /\ (promises[i].state = "pending" /\ promises'[i].state # "pending")
                       => SnapshotSettled(promises[i])

C9_Inv ==
    \A i \in 1..Len(promises) :
        /\ \A k \in 1..Len(promises[i].attachments) :
               promises[i].attachments[k] \in 1..Len(models)
        /\ (promises[i].state = "pending" /\ SnapshotSettled(promises[i]))
               => ENABLED AllSettledContinue(i)

C9_AllSettledSnapshot == [](C9_Inv) /\ [][C9_Step]_vars

\* fulfilled while a handle added after the call is stored and unresolved
C9_Witness ==
    \E i \in 1..Len(promises) :
        /\ promises[i].state = "fulfilled"
        /\ promises[i].attachments # <<>>
        /\ \E k \in 1..Len(store) :
               /\ \A j \in 1..Len(promises[i].attachments) :
                      promises[i].attachments[j] < store[k].h
               /\ models[store[k].h].settle = "pending"

\* C11: a handle that has left the collection is heard of no more: no later
\* turn fires onAdd or onRemove with it or logs a step of it, an update it
\* emits afterwards (its resolution may still be in flight) fires nothing, and
\* onRemove never fires twice with the same handle.
C11_Inv ==
    \A h \in 1..Len(models) :
        /\ hist[h].onRemove <= 1
        /\ (\A i \in 1..Len(store) : store[i].h # h) => models[h].disposed

C11_Step ==
    \A h \in 1..Len(models) :
        models[h].disposed =>
            /\ hist'[h] = hist[h]
            /\ \A i \in 1..Len(trace') : trace'[i].h # h
            /\ (lastCall'.h = h /\ lastCall'.op \in {"handleUpdate", "handleSettle"})
                   => trace' = <<>>

C12_DisposeDisposesAll ==
    lastCall.op = "dispose" =>
        /\ store = <<>>
        /\ isDisposed
        /\ \A h \in 1..Len(models) :
               /\ models[h].disposed
               /\ models[h].disposeCalls = 1
        /\ \A h \in 1..Len(models) : CountOf(trace, "dispose", h) <= 1

\* two handles were stored when the collection was disposed
C12_Witness ==
    /\ lastCall.op = "dispose"
    /\ Cardinality({h \in 1..Len(models) : CountOf(trace, "dispose", h) = 1}) >= 2
    /\ store = <<>>

\* C13: the key is the path alone. While a handle made for another URI with
\* the same path is stored, add(u) returns true and creates nothing, and
\* remove(u) disposes that handle and takes it out of the map.
C13_Step ==
    \A i \in 1..Len(store) :
        (/\ models[store[i].h].uri.path = lastCall'.uri.path
         /\ models[store[i].h].uri # lastCall'.uri) =>
            /\ lastCall'.op = "add" =>
                   /\ lastCall'.ret
                   /\ models' = models /\ store' = store
            /\ lastCall'.op = "remove" =>
                   /\ models'[store[i].h].disposed
                   /\ models'[store[i].h].disposeCalls = 1
                   /\ \A j \in 1..Len(store') : store'[j].h # store[i].h
                   /\ Len(store') = Len(store) - 1

C13_KeyIsPathOnly == [][C13_Step]_vars

\* remove(u) has just removed a handle that was made for another URI
C13_Witness ==
    /\ lastCall.op = "remove" /\ lastCall.h # 0
    /\ models[lastCall.h].uri # lastCall.uri
    /\ models[lastCall.h].uri.path = lastCall.uri.path
    /\ models[lastCall.h].disposed

\* C14: createPromptVariableId(uri, isRoot) is "vscode.prompt.instructions",
\* then ".root" exactly when isRoot, then "__", then the URI as a string; the
\* ids of the root and the non-root form of one URI differ.
C14_PromptVariableId ==
    enc.fn = "createPromptVariableId" =>
        /\ enc.id = (IF enc.isRoot THEN "vscode.prompt.instructions.root__"
                     ELSE "vscode.prompt.instructions__") \o UriToString(enc.uri)
        /\ enc.id # createPromptVariableId(enc.uri, ~enc.isRoot)
        /\ StartsWith(enc.id, "vscode.prompt.instructions.root") <=> enc.isRoot

C14_Witness ==
    /\ enc.fn = "createPromptVariableId"
    /\ enc.isRoot
    /\ enc.id = "vscode.prompt.instructions.root__untitled:/d/c.prompt.md"

\* C15: toChatVariable gives kind "file" and the URI as value; for a
\* non-prompt reference the id is the URI string whatever isRoot is, the name
\* "file:<basename>" and no modelDescription; for a prompt reference the id
\* is createPromptVariableId(uri, isRoot), the name "prompt:<basename>" and the
\* fixed modelDescription; isPromptFileChatVariable of the entry is the
\* reference's isPromptFile.
C15_ToChatVariable ==
    enc.fn = "toChatVariable" =>
        LET uri == enc.reference.uri
            e == enc.out
        IN  /\ e.kind = "file"
            /\ e.value = uri
            /\ ~enc.reference.isPromptFile =>
                   /\ e.id = UriToString(uri)
                   /\ e.name = "file:" \o uri.path[Len(uri.path)]
                   /\ e.modelDescription = Undefined
            /\ enc.reference.isPromptFile =>
                   /\ e.id = (IF enc.isRoot THEN "vscode.prompt.instructions.root__"
                              ELSE "vscode.prompt.instructions__") \o UriToString(uri)
                   /\ e.name = "prompt:" \o uri.path[Len(uri.path)]
                   /\ e.modelDescription = "Prompt instructions file"
            /\ enc.isPrompt = enc.reference.isPromptFile

\* a non-prompt root reference whose file name itself begins with "prompt:"
C15_Witness ==
    /\ enc.fn = "toChatVariable"
    /\ ~enc.reference.isPromptFile
    /\ enc.isRoot
    /\ enc.out.name = "file:prompt:x.md"
    /\ enc.out.id = "file:///prompt:x.md"
    /\ ~enc.isPrompt

\* C16: every handle has had its resolve called exactly once, by the add that
\* created it and after it was stored; no other turn calls resolve.
C16_ResolvedOnce ==
    /\ \A h \in 1..Len(models) : models[h].resolveCalls = 1
    /\ \A i \in 1..Len(trace) :
           trace[i].ev = "resolve" =>
               /\ lastCall.op = "add" /\ ~lastCall.ret
               /\ trace[i].h = lastCall.h
               /\ \E j \in 1..(i - 1) : trace[j] = Ev("set", lastCall.h)
    /\ (lastCall.op = "add" /\ ~lastCall.ret) =>
           CountOf(trace, "resolve", lastCall.h) = 1

\* an add found its key taken: the stored handle is not resolved again
C16_Witness ==
    /\ lastCall.op = "add" /\ lastCall.ret
    /\ \E i \in 1..Len(store) :
           /\ store[i].key = lastCall.uri.path
           /\ models[store[i].h].resolveCalls = 1
           /\ models[store[i].h].children # <<>>
    /\ Len(models) >= 2

\* C18: an update event of a handle that is stored fires the collection's
\* onUpdate once and nothing else: the map, the handles' subscriptions and the
\* onAdd / onRemove counts stay as they were.
C18_Step ==
    (lastCall'.op = "handleUpdate" /\ ~models[lastCall'.h].disposed) =>
        /\ trace' = <<Ev("onUpdate", 0)>>
        /\ store' = store
        /\ hist' = hist
        /\ \E i \in 1..Len(store) : store[i].h = lastCall'.h
        /\ models'[lastCall'.h].onUpdateWired

C18_HandleUpdateRefires == [][C18_Step]_vars

\* the second update of one stored handle
C18_Witness ==
    /\ lastCall.op = "handleUpdate"
    /\ ~models[lastCall.h].disposed
    /\ Len(models[lastCall.h].children) = 2
    /\ trace = <<Ev("onUpdate", 0)>>
    /\ ~isDisposed

\* C19: between calls, every handle the collection created and that is not
\* disposed is stored under the path of the URI it was created for, and every
\* stored handle is undisposed; also when a listener of onAdd, onUpdate or
\* onRemove calls add or remove from inside the notification.
C19_NoHandleLeaked ==
    /\ \A h \in 1..Len(models) :
           ~models[h].disposed =>
               \E i \in 1..Len(store) :
                   store[i].h = h /\ store[i].key = models[h].uri.path
    /\ \A i \in 1..Len(store) : ~models[store[i].h].disposed

\* C17: every step of a call that puts a handle into the collection or takes
\* one out of it (add on an absent key, remove, handle self-disposal, or any
\* other path that drops an entry) is followed, in the same call, by at least
\* one firing of the collection's onUpdate.
C17_UpdateAfterMembershipChange ==
    \A i \in 1..Len(trace) :
        (trace[i].ev \in {"set", "deleteAndLeak", "drop"} /\ trace[i].h # 0) =>
            \E j \in (i + 1)..Len(trace) : trace[j].ev = "onUpdate"

\* C20: for every handle, onAdd has fired exactly once and onRemove at most
\* once, onRemove never fires before the handle's onAdd, and while the
\* collection is not disposed the stored handles are exactly those whose onAdd
\* has fired and whose onRemove has not.
C20_HandleLifecycle ==
    /\ \A h \in 1..Len(models) : hist[h].onAdd = 1 /\ hist[h].onRemove <= 1
    /\ \A i \in 1..Len(trace) :
           trace[i].ev = "onRemove" =>
               ~\E j \in (i + 1)..Len(trace) :
                   trace[j].ev = "onAdd" /\ trace[j].h = trace[i].h
    /\ ~isDisposed =>
           {store[i].h : i \in 1..Len(store)} =
               {h \in 1..Len(models) : hist[h].onAdd >= 1 /\ hist[h].onRemove = 0}

====
